---- MODULE Spec2Model ----
(***************************************************************************)
(* A model of BehaviorBuilder.py: the BehaviorFile builder, the objects it *)
(* emits into the shared data section, and the export step.                *)
(*                                                                         *)
(* Python objects are identified by the position of their <hkobject> in    *)
(* the data section (every constructor appends exactly one).  Attributes   *)
(* that the source declares in a class body and only ever mutates in place *)
(* (BehaviorFile.data, BehaviorFile.list_of_states,                        *)
(* hkbBehaviorGraphStringData.event_name_list,                             *)
(* hkbStateMachine.list_of_states) are one value per process; attributes   *)
(* rebound through self (object_counter, nStates, nEvents, ...) are one    *)
(* value per instance.  Texts written with str() or format() are strings.  *)
(***************************************************************************)
EXTENDS Integers, Sequences, FiniteSets, TLC

\* ------------------------------------------------------------- bounds
\* Calls per run.
MaxCalls == 4
\* BehaviorFile instances a run may construct (MultiSpec only).
MaxBuilders == 2
\* Calls per run of several instances.
MaxMultiCalls == 3
\* Elements of the tree handed to _pretty_print.
MaxNodes == 5

\* The inputs the calls are drawn from.
StateNames == {"Idle", "Walk"}
EventNames == {"StartWalk", "StopWalk"}
\* enterNotifyEvents / exitNotifyEvents arguments: the default "null", one
\* event name, or a list of names (kind tells a str from a list).
NullEvents == [kind |-> "str", names |-> <<"null">>]
\* add_state's arguments after the name: a clip state, a clip state left with
\* the default path, a Gamebryo state, a clip state with enter and exit events.
AddStateArgs ==
    { [animation_path |-> "anim/idle.hkx", looping |-> TRUE,
       gamebryoanim |-> FALSE, enter |-> NullEvents, exit |-> NullEvents],
      [animation_path |-> "placeholder", looping |-> FALSE,
       gamebryoanim |-> FALSE, enter |-> NullEvents, exit |-> NullEvents],
      [animation_path |-> "placeholder", looping |-> FALSE,
       gamebryoanim |-> TRUE, enter |-> NullEvents, exit |-> NullEvents],
      [animation_path |-> "anim/walk.hkx", looping |-> FALSE,
       gamebryoanim |-> FALSE,
       enter |-> [kind |-> "str", names |-> <<"StopWalk">>],
       exit |-> [kind |-> "list", names |-> <<"StopWalk", "StartWalk">>]] }
\* add_clip_trigger's arguments after the state.
ClipTriggerArgs ==
    { [event |-> "StartWalk", relativeToEndOfClip |-> TRUE, localTime |-> 2] }
\* add_wildcard's events.
WildcardEvents == {"StopWalk"}

\* ------------------------------------------------------------- state
VARIABLES
    data,               \* BehaviorFile.data: the <hkobject>s of the data section
    list_of_states,     \* BehaviorFile.list_of_states
    event_name_list,    \* hkbBehaviorGraphStringData.event_name_list
    sm_list_of_states,  \* hkbStateMachine.list_of_states
    bf,                 \* the BehaviorFile instances, in construction order
    issued,             \* per instance: the values _OCnext has returned
    okcalls,            \* per instance: the calls that succeeded, the exports
    ncalls,             \* calls made
    last,               \* the last call and how it ended
    xml_obj,            \* the tree of prettify_and_print, as it last left it
    printed             \* whether _pretty_print ran on xml_obj last

vars == <<data, list_of_states, event_name_list, sm_list_of_states, bf,
          issued, okcalls, ncalls, last, xml_obj, printed>>

\* None, for a reference to an object.
None == 0

\* ------------------------------------------------------------- formatting
Digit(d) ==
    CASE d = 0 -> "0" [] d = 1 -> "1" [] d = 2 -> "2" [] d = 3 -> "3"
      [] d = 4 -> "4" [] d = 5 -> "5" [] d = 6 -> "6" [] d = 7 -> "7"
      [] d = 8 -> "8" [] d = 9 -> "9"

RECURSIVE Str(_)
\* str(n) of a non-negative int
Str(n) == IF n < 10 THEN Digit(n) ELSE Str(n \div 10) \o Digit(n % 10)

RECURSIVE ZeroPad(_, _)
ZeroPad(s, width) == IF Len(s) >= width THEN s ELSE ZeroPad("0" \o s, width)

\* "#{:04d}".format(n)
FormatTag(n) == "#" \o ZeroPad(Str(n), 4)

\* "{:.06f}".format(float(n)) of a non-negative whole number
FormatFloat(n) == Str(n) \o ".000000"

\* BehaviorFile.root_index = object_counter = 51
root_index == 51

\* hkpackfile.set('toplevelobject', "#{:04d}".format(root_index))
toplevelobject == FormatTag(root_index)

\* ------------------------------------------------------------- element trees
\* An xml.etree element: its text, its tail and its child elements.  A text
\* or tail of None is the empty string.
Element(text) == [text |-> text, tail |-> "", children |-> <<>>]

\* The texts an element is given before the tree is printed.
Texts == {"", "null"}

\* The elements of the tree t, each as the path of child positions to it.
RECURSIVE Paths(_)
Paths(t) ==
    {<<>>} \cup UNION {{<<i>> \o p : p \in Paths(t.children[i])} :
                          i \in 1..Len(t.children)}

\* ET.SubElement(parent, ...) with parent the element of t at path.
RECURSIVE SubElement(_, _, _)
SubElement(t, path, text) ==
    IF path = <<>>
    THEN [t EXCEPT !.children = Append(@, Element(text))]
    ELSE [t EXCEPT !.children[Head(path)] = SubElement(@, Tail(path), text)]

RECURSIVE Tabs(_)
\* '\t' * depth
Tabs(depth) == IF depth <= 0 THEN "" ELSE "\t" \o Tabs(depth - 1)

\* '\n' + ('\t' * depth), for every depth a tree here has.
Indents == [depth \in 0..(MaxNodes + 8) |-> "\n" \o Tabs(depth)]

Indent(depth) == Indents[depth]

\* The last child's tail indented as deep as the child itself.
TailOfLast_same(depth) == Indent(depth)

\* current.tail = '\n' + ('\t' * (depth - 1))
TailOfLast(depth) == Indent(depth - 1)

\* _pretty_print(current, parent, index, depth) on the whole tree under
\* current, by what its calls leave in each element: the call on the first
\* child sets the text of current, the call on child i + 1 sets the tail of
\* child i, and the call on the last child sets its own tail.
RECURSIVE pretty_print(_, _)
pretty_print(current, depth) ==
    LET n == Len(current.children)
    IN IF n = 0
       THEN current
       ELSE [text |-> Indent(depth + 1),
             tail |-> current.tail,
             children |->
                 [i \in 1..n |->
                     [pretty_print(current.children[i], depth + 1)
                         EXCEPT !.tail = IF i < n THEN Indent(depth + 1)
                                         ELSE TailOfLast(depth + 1)]]]

\* ------------------------------------------------------------- the world
\* The program state as one value, so that a call is a function on it.
World ==
    [data |-> data, list_of_states |-> list_of_states,
     event_name_list |-> event_name_list,
     sm_list_of_states |-> sm_list_of_states, bf |-> bf, issued |-> issued]

\* self.object_counter += 1; return "#{:04d}".format(self.object_counter)
OCnext(w, b) ==
    LET n == w.bf[b].object_counter + 1
    IN [w EXCEPT !.bf[b].object_counter = n,
                 !.issued[b] = Append(@, FormatTag(n))]

\* The tag the last _OCnext of builder b returned.
LastTag(w, b) == FormatTag(w.bf[b].object_counter)

\* ET.SubElement(BehaviorFileObj.data, 'hkobject'); self.tag = _OCnext();
\* hkobject.set('name', self.tag): obj is the object's other content.
NewObject(w, b, obj) ==
    LET w1 == OCnext(w, b)
    IN [w1 EXCEPT !.data = Append(@, [tag |-> LastTag(w1, b)] @@ obj)]

\* The object a constructor has just appended.
Newest(w) == Len(w.data)

\* ------------------------------------------------------------- events
\* name in self.event_name_list
Registered(names, event) == \E i \in 1..Len(names) : names[i] = event

\* get_eventID without the else of its loop: a name that is not found gets
\* the index the loop ended on.
get_eventID_last(names, event) ==
    IF Registered(names, event)
    THEN [raised |-> FALSE,
          id |-> (CHOOSE i \in 1..Len(names) :
                     /\ names[i] = event
                     /\ \A j \in 1..(i - 1) : names[j] # event) - 1]
    ELSE [raised |-> names = <<>>, id |-> Len(names) - 1]

\* hkbBehaviorGraphStringData.get_eventID: the index of the first entry
\* equal to event; raised is TRUE where the source raises.
get_eventID(names, event) ==
    IF Registered(names, event)
    THEN [raised |-> FALSE,
          id |-> (CHOOSE i \in 1..Len(names) :
                     /\ names[i] = event
                     /\ \A j \in 1..(i - 1) : names[j] # event) - 1]
    ELSE [raised |-> TRUE, id |-> -1]

\* add_event putting the new name in front of event_name_list.
StringData_add_event_front(w, sd, event_name) ==
    LET n == w.data[sd].nEvents + 1
    IN IF Registered(w.event_name_list, event_name)
       THEN [w |-> w, raised |-> TRUE]
       ELSE [w |-> [w EXCEPT !.data[sd].eventNames = <<event_name>> \o @,
                             !.data[sd].nEvents = n,
                             !.event_name_list = <<event_name>> \o @,
                             !.data[sd].numelements = Str(n)],
             raised |-> FALSE]

\* hkbBehaviorGraphStringData.add_event on the string data object sd.  A name
\* that is already in event_name_list raises (a str is raised: TypeError)
\* before anything is changed.
StringData_add_event(w, sd, event_name) ==
    LET n == w.data[sd].nEvents + 1
    IN IF Registered(w.event_name_list, event_name)
       THEN [w |-> w, raised |-> TRUE]
       ELSE [w |-> [w EXCEPT !.data[sd].eventNames = Append(@, event_name),
                             !.data[sd].nEvents = n,
                             !.event_name_list = Append(@, event_name),
                             !.data[sd].numelements = Str(n)],
             raised |-> FALSE]

\* hkbBehaviorGraphData.add_event(flags=0) on the graph data object gd.
GraphData_add_event(w, gd) ==
    LET n == w.data[gd].nEvents + 1
    IN [w EXCEPT !.data[gd].eventInfos = Append(@, [flags |-> Str(0)]),
                 !.data[gd].nEvents = n,
                 !.data[gd].numelements = Str(n)]

\* getOrCreateEventID forgetting the entry of hkbBehaviorGraphData.
getOrCreateEventID_nameonly(w, b, event_name) ==
    IF Registered(w.event_name_list, event_name)
    THEN w
    ELSE StringData_add_event(w, w.bf[b].hkbBehaviorGraphStringData,
                              event_name).w

\* hkbBehaviorGraphStringData.getOrCreateEventID: the world after the call.
getOrCreateEventID(w, b, event_name) ==
    IF Registered(w.event_name_list, event_name)
    THEN w
    ELSE GraphData_add_event(
             StringData_add_event(w, w.bf[b].hkbBehaviorGraphStringData,
                                  event_name).w,
             w.bf[b].hkbBehaviorGraphData)

\* The id read back as the number of registered names.
EventID_count(w, event_name) == Len(w.event_name_list)

\* The id getOrCreateEventID returns, read in the world after the call.
EventID(w, event_name) == get_eventID(w.event_name_list, event_name).id

\* ------------------------------------------------------------- constructors
hkbBehaviorGraphStringData_init(w, b) ==
    NewObject(w, b, [class |-> "hkbBehaviorGraphStringData",
                     eventNames |-> <<>>, numelements |-> Str(0),
                     nEvents |-> 0])

hkbVariableValueSet_init(w, b) ==
    NewObject(w, b, [class |-> "hkbVariableValueSet"])

hkbBehaviorGraphData_init(w, b) ==
    NewObject(w, b,
        [class |-> "hkbBehaviorGraphData",
         eventInfos |-> <<>>, numelements |-> Str(0), nEvents |-> 0,
         variableInitialValues |-> w.data[w.bf[b].hkbVariableValueSet].tag,
         stringData |-> w.data[w.bf[b].hkbBehaviorGraphStringData].tag])

hkbBlendingTransitionEffect_init(w, b) ==
    NewObject(w, b, [class |-> "hkbBlendingTransitionEffect",
                     userData |-> "ZeroDuration", name |-> "name"])

hkbStateMachineTransitionInfoArray_init(w, b) ==
    NewObject(w, b, [class |-> "hkbStateMachineTransitionInfoArray",
                     transitions |-> <<>>, numelements |-> Str(0),
                     numTransitions |-> 0])

\* add_transition writing the local flags whatever wildcard is.
TransitionFlags_local(wildcard) == "FLAG_DISABLE_CONDITION"

\* The flags text of a transition record.
TransitionFlags(wildcard) ==
    IF wildcard THEN "FLAG_IS_LOCAL_WILDCARD|FLAG_DISABLE_CONDITION"
    ELSE "FLAG_DISABLE_CONDITION"

\* add_transition putting the new record in front of the table.
add_transition_front(w, ta, eventIdIdx, toStateIdIdx, transitionStr, wildcard) ==
    LET n == w.data[ta].numTransitions + 1
    IN [w EXCEPT !.data[ta].transitions =
                     <<[transition |-> transitionStr,
                        condition |-> "null",
                        eventId |-> Str(eventIdIdx),
                        toStateId |-> Str(toStateIdIdx),
                        flags |-> TransitionFlags(wildcard)]>> \o @,
                 !.data[ta].numTransitions = n,
                 !.data[ta].numelements = Str(n)]

\* hkbStateMachineTransitionInfoArray.add_transition on the array object ta.
add_transition(w, ta, eventIdIdx, toStateIdIdx, transitionStr, wildcard) ==
    LET n == w.data[ta].numTransitions + 1
    IN [w EXCEPT !.data[ta].transitions =
                     Append(@, [transition |-> transitionStr,
                                condition |-> "null",
                                eventId |-> Str(eventIdIdx),
                                toStateId |-> Str(toStateIdIdx),
                                flags |-> TransitionFlags(wildcard)]),
                 !.data[ta].numTransitions = n,
                 !.data[ta].numelements = Str(n)]

\* The object ref is the string "null" (None) or an object of one of classes.
NullOrOfClass(w, ref, classes) == ref = None \/ w.data[ref].class \in classes

\* hkbClipGenerator.__init__: triggers is the string "null" (the default) or
\* a hkbClipTriggerArray object; raised is TRUE where the assert fails, before
\* anything is made.
hkbClipGenerator_init(w, b, name, anim_path, triggers, looping) ==
    IF NullOrOfClass(w, triggers, {"hkbClipTriggerArray"})
    THEN [w |-> NewObject(w, b,
                    [class |-> "hkbClipGenerator", name |-> name,
                     animationName |-> anim_path,
                     triggers |-> IF triggers = None THEN "null"
                                  ELSE w.data[triggers].tag,
                     mode |-> IF looping THEN "MODE_LOOPING"
                              ELSE "MODE_SINGLE_PLAY"]),
          raised |-> FALSE]
    ELSE [w |-> w, raised |-> TRUE]

\* hkbClipGenerator.set_trigger on the generator object gen: the assert on
\* the class of trigger, then self.triggers.text = trigger.tag.
set_trigger(w, gen, trigger) ==
    IF w.data[trigger].class = "hkbClipTriggerArray"
    THEN [w |-> [w EXCEPT !.data[gen].triggers = w.data[trigger].tag],
          raised |-> FALSE]
    ELSE [w |-> w, raised |-> TRUE]

BGSGamebryoSequenceGenerator_init(w, b, nifAnimName) ==
    NewObject(w, b, [class |-> "BGSGamebryoSequenceGenerator",
                     name |-> nifAnimName \o "Sequence",
                     pSequence |-> nifAnimName])

\* The loop of hkbStateMachineEventPropertyArray.__init__ over events[idx:],
\* on the array object pa.
RECURSIVE AddEventProperties(_, _, _, _)
AddEventProperties(w, b, pa, events) ==
    IF events = <<>> THEN w
    ELSE LET w1 == getOrCreateEventID(w, b, Head(events))
             w2 == [w1 EXCEPT !.data[pa].events =
                        Append(@, [id |-> Str(EventID(w1, Head(events))),
                                   payload |-> "null"])]
         IN AddEventProperties(w2, b, pa, Tail(events))

\* events is a str (one event) or a list; num_elements is set before the loop.
hkbStateMachineEventPropertyArray_init(w, b, events) ==
    LET num == IF events.kind = "list" THEN Len(events.names) ELSE 1
        w1 == NewObject(w, b, [class |-> "hkbStateMachineEventPropertyArray",
                               events |-> <<>>, numelements |-> Str(num),
                               num_elements |-> num])
    IN AddEventProperties(w1, b, Newest(w1), events.names)

\* enterNotifyEvents / exitNotifyEvents are the string "null" or an object.
RefText(w, ref) == IF ref = None THEN "null" ELSE w.data[ref].tag

\* The asserts of hkbStateMachineStateInfo.__init__ on the classes of its
\* arguments.
StateInfoArgsAsserted(w, generator, transitions, enterNotifyEvents, exitNotifyEvents) ==
    /\ w.data[generator].class \in
           {"hkbClipGenerator", "BGSGamebryoSequenceGenerator"}
    /\ w.data[transitions].class = "hkbStateMachineTransitionInfoArray"
    /\ NullOrOfClass(w, exitNotifyEvents,
                     {"hkbStateMachineEventPropertyArray"})
    /\ NullOrOfClass(w, enterNotifyEvents,
                     {"hkbStateMachineEventPropertyArray"})

\* hkbStateMachineStateInfo.__init__; raised is TRUE where an assert fails,
\* before anything is made.
hkbStateMachineStateInfo_init(w, b, generator, transitions, name, state_ID, enterNotifyEvents, exitNotifyEvents) ==
    IF StateInfoArgsAsserted(w, generator, transitions, enterNotifyEvents,
                             exitNotifyEvents)
    THEN [w |-> NewObject(w, b,
                    [class |-> "hkbStateMachineStateInfo",
                     enterNotifyEvents |-> RefText(w, enterNotifyEvents),
                     exitNotifyEvents |-> RefText(w, exitNotifyEvents),
                     transitions |-> w.data[transitions].tag,
                     generator |-> w.data[generator].tag,
                     name |-> name, stateName |-> name,
                     stateId |-> Str(state_ID), stateIdx |-> state_ID,
                     hkbClipTriggerArray |-> None]),
          raised |-> FALSE]
    ELSE [w |-> w, raised |-> TRUE]

hkbClipTriggerArray_init(w, b) ==
    NewObject(w, b, [class |-> "hkbClipTriggerArray",
                     triggersParam |-> <<>>, numelements |-> Str(0),
                     num_elements |-> 0])

\* hkbStateMachineStateInfo.getOrCreateClipTriggerArray on the state object si.
getOrCreateClipTriggerArray(w, b, si) ==
    IF w.data[si].hkbClipTriggerArray = None
    THEN LET w1 == hkbClipTriggerArray_init(w, b)
         IN [w1 EXCEPT !.data[si].hkbClipTriggerArray = Newest(w1)]
    ELSE w

\* add_trigger leaving the element count as it was.
add_trigger_nocount(w, ct, localTime, EventId, relativeToEndOfClip) ==
    [w EXCEPT !.data[ct].triggersParam =
                  Append(@, [localTime |-> FormatFloat(localTime),
                             id |-> Str(EventId),
                             relativeToEndOfClip |->
                                 IF relativeToEndOfClip THEN "true"
                                 ELSE "false"])]

\* hkbClipTriggerArray.add_trigger on the array object ct.
add_trigger(w, ct, localTime, EventId, relativeToEndOfClip) ==
    LET n == w.data[ct].num_elements + 1
    IN [w EXCEPT !.data[ct].triggersParam =
                     Append(@, [localTime |-> FormatFloat(localTime),
                                id |-> Str(EventId),
                                relativeToEndOfClip |->
                                    IF relativeToEndOfClip THEN "true"
                                    ELSE "false"]),
                 !.data[ct].num_elements = n,
                 !.data[ct].numelements = Str(n)]

\* hkbStateMachine.__init__(BehaviorFileObj): startStateIdIdx defaults to 0.
hkbStateMachine_init(w, b) ==
    NewObject(w, b,
        [class |-> "hkbStateMachine", name |-> "defaultNameBehavior",
         startStateId |-> Str(0), states |-> <<>>, numelements |-> Str(0),
         wildcardTransitions |-> RefText(w, w.bf[b].wildcardtransitions),
         nStates |-> 0])

\* hkbStateMachine.add_state on the state machine object sm: the states text
\* is the class's list of tags joined by blanks, kept here as the list.
\* raised is TRUE where the assert on the class of state fails.
StateMachine_add_state(w, sm, state) ==
    LET n == w.data[sm].nStates + 1
        l == Append(w.sm_list_of_states, w.data[state].tag)
    IN IF w.data[state].class = "hkbStateMachineStateInfo"
       THEN [w |-> [w EXCEPT !.data[sm].nStates = n,
                             !.sm_list_of_states = l,
                             !.data[sm].states = l,
                             !.data[sm].numelements = Str(n)],
             raised |-> FALSE]
       ELSE [w |-> w, raised |-> TRUE]

hkbBehaviorGraph_init(w, b) ==
    NewObject(w, b,
        [class |-> "hkbBehaviorGraph", name |-> "defaultNameBehavior.hkb",
         rootGenerator |-> w.data[w.bf[b].hkbStateMachineObj].tag,
         data |-> w.data[w.bf[b].hkbBehaviorGraphData].tag])

\* __init__ of an instance that finds the counter where the instance made
\* before it left it (one counter kept by the class).
FirstCounter_shared(w) ==
    IF w.bf = <<>> THEN root_index ELSE w.bf[Len(w.bf)].object_counter

\* The object_counter a new instance reads: the class attribute, which no
\* instance rebinds.
FirstCounter(w) == root_index

\* BehaviorFile.__init__: a new instance reads the class's object_counter
\* and nStates until it rebinds them.
BehaviorFile_init(w) ==
    LET b == Len(w.bf) + 1
        w0 == [w EXCEPT !.bf = Append(@,
                   [object_counter |-> FirstCounter(w), nStates |-> 0,
                    wildcardtransitions |-> None,
                    hkbBehaviorGraphStringData |-> None,
                    hkbVariableValueSet |-> None,
                    hkbBehaviorGraphData |-> None,
                    blend_effect |-> None,
                    hkbStateMachineObj |-> None,
                    hkbBehaviorGraphObj |-> None]),
                         !.issued = Append(@, <<>>)]
        w1 == hkbBehaviorGraphStringData_init(w0, b)
        w2 == [w1 EXCEPT !.bf[b].hkbBehaviorGraphStringData = Newest(w1)]
        w3 == hkbVariableValueSet_init(w2, b)
        w4 == [w3 EXCEPT !.bf[b].hkbVariableValueSet = Newest(w3)]
        w5 == hkbBehaviorGraphData_init(w4, b)
        w6 == [w5 EXCEPT !.bf[b].hkbBehaviorGraphData = Newest(w5)]
        w7 == hkbBlendingTransitionEffect_init(w6, b)
    IN [w7 EXCEPT !.bf[b].blend_effect = Newest(w7)]

\* A transition added with add_transition's default transitionStr.
BlendEffectTag_null(w, b) == "null"

\* transitionStr=self.blend_effect.tag
BlendEffectTag(w, b) == w.data[w.bf[b].blend_effect].tag

\* ------------------------------------------------------------- the builder API
\* for stateInfo, ..., stateName in self.list_of_states: if stateName == name:
\* break -- the entry the loop variables are left bound to: the first entry
\* with that name, else the last entry of the list, else (None) unbound.
LoopVar(los, name) ==
    IF \E i \in 1..Len(los) : los[i].stateName = name
    THEN CHOOSE i \in 1..Len(los) :
             /\ los[i].stateName = name
             /\ \A j \in 1..(i - 1) : los[j].stateName # name
    ELSE Len(los)

\* Whether the loop ended by break.
Found(los, name) == \E i \in 1..Len(los) : los[i].stateName = name

\* enterNotifyEvents != "null"
NotNull(events) == ~(events.kind = "str" /\ events.names = <<"null">>)

\* add_state without the check of the animation path.
PlaceholderRejected_off(animation_path, gamebryoanim) == FALSE

\* The argument check that opens add_state: a warning and a return.
PlaceholderRejected(animation_path, gamebryoanim) ==
    ~gamebryoanim /\ animation_path = "placeholder"

\* add_state leaving nStates as it was.
NextStateCount_same(w, b) == w.bf[b].nStates

\* self.nStates += 1
NextStateCount(w, b) == w.bf[b].nStates + 1

\* BehaviorFile.add_state, from the generator on (both checks passed).
add_state_build(w, b, name, animation_path, looping, gamebryoanim, enterNotifyEvents, exitNotifyEvents) ==
    LET w1 == hkbStateMachineTransitionInfoArray_init(w, b)
        transitions == Newest(w1)
        w2 == IF ~gamebryoanim
              THEN hkbClipGenerator_init(w1, b, name, animation_path, None,
                                         looping).w
              ELSE BGSGamebryoSequenceGenerator_init(w1, b, name)
        generator == Newest(w2)
        w3 == IF NotNull(enterNotifyEvents)
              THEN hkbStateMachineEventPropertyArray_init(w2, b,
                                                          enterNotifyEvents)
              ELSE w2
        enter == IF NotNull(enterNotifyEvents) THEN Len(w2.data) + 1 ELSE None
        w4 == IF NotNull(exitNotifyEvents)
              THEN hkbStateMachineEventPropertyArray_init(w3, b,
                                                          exitNotifyEvents)
              ELSE w3
        exit == IF NotNull(exitNotifyEvents) THEN Len(w3.data) + 1 ELSE None
        w5 == hkbStateMachineStateInfo_init(w4, b, generator, transitions,
                                            name, w4.bf[b].nStates,
                                            enter, exit).w
        state == Newest(w5)
    IN [w5 EXCEPT !.bf[b].nStates = NextStateCount(w5, b),
                  !.list_of_states =
                      Append(@, [stateInfo |-> state,
                                 stateGenerator |-> generator,
                                 stateTransitions |-> transitions,
                                 stateName |-> name])]

\* add_state without the check that the name is unique.
add_state_call_nodup(w, b, name, animation_path, looping, gamebryoanim, enterNotifyEvents, exitNotifyEvents) ==
    IF PlaceholderRejected(animation_path, gamebryoanim)
    THEN [w |-> w, result |-> "warning"]
    ELSE [w |-> add_state_build(w, b, name, animation_path, looping,
                                gamebryoanim, enterNotifyEvents,
                                exitNotifyEvents),
          result |-> "ok"]

\* BehaviorFile.add_state: the world after the call and how the call ended.
add_state_call(w, b, name, animation_path, looping, gamebryoanim, enterNotifyEvents, exitNotifyEvents) ==
    IF PlaceholderRejected(animation_path, gamebryoanim)
    THEN [w |-> w, result |-> "warning"]
    ELSE IF Found(w.list_of_states, name)
    THEN [w |-> w, result |-> "warning"]
    ELSE [w |-> add_state_build(w, b, name, animation_path, looping,
                                gamebryoanim, enterNotifyEvents,
                                exitNotifyEvents),
          result |-> "ok"]

\* add_clip_trigger without the check of the generator's type.
IsGamebryo_off(w, gen) == FALSE

\* isinstance(stateGenerator, BGSGamebryoSequenceGenerator)
IsGamebryo(w, gen) == w.data[gen].class = "BGSGamebryoSequenceGenerator"

\* add_clip_trigger checking the generator's type only after the trigger
\* array and the event have been created.
add_clip_trigger_call_latecheck(w, b, state, event, relativeToEndOfClip, localTime) ==
    LET i == LoopVar(w.list_of_states, state)
    IN IF i = None
       THEN [w |-> w, result |-> "UnboundLocalError"]
       ELSE LET stateInfo == w.list_of_states[i].stateInfo
                w1 == getOrCreateClipTriggerArray(w, b, stateInfo)
                clip_trigger == w1.data[stateInfo].hkbClipTriggerArray
                w2 == getOrCreateEventID(w1, b, event)
            IN IF IsGamebryo(w, w.list_of_states[i].stateGenerator)
               THEN [w |-> w2, result |-> "TypeError"]
               ELSE [w |-> set_trigger(
                               add_trigger(w2, clip_trigger, localTime,
                                           EventID(w2, event),
                                           relativeToEndOfClip),
                               w.list_of_states[i].stateGenerator,
                               clip_trigger).w,
                     result |-> IF Found(w.list_of_states, state) THEN "ok"
                                ELSE "warning"]

\* BehaviorFile.add_clip_trigger.  A state that is not found is only logged;
\* the loop variables keep the last entry of the list, or are unbound.
add_clip_trigger_call(w, b, state, event, relativeToEndOfClip, localTime) ==
    LET i == LoopVar(w.list_of_states, state)
    IN IF i = None
       THEN [w |-> w, result |-> "UnboundLocalError"]
       ELSE IF IsGamebryo(w, w.list_of_states[i].stateGenerator)
       THEN [w |-> w, result |-> "TypeError"]
       ELSE LET stateInfo == w.list_of_states[i].stateInfo
                w1 == getOrCreateClipTriggerArray(w, b, stateInfo)
                clip_trigger == w1.data[stateInfo].hkbClipTriggerArray
                w2 == getOrCreateEventID(w1, b, event)
                w3 == add_trigger(w2, clip_trigger, localTime,
                                  EventID(w2, event), relativeToEndOfClip)
            IN [w |-> set_trigger(w3, w.list_of_states[i].stateGenerator,
                                  clip_trigger).w,
                result |-> IF Found(w.list_of_states, state) THEN "ok"
                           ELSE "warning"]

\* The assertion compiled away.
SameStateAsserted_off(state1, state2) == FALSE

\* assert state1 != state2
SameStateAsserted(state1, state2) == state1 = state2

\* The position of the entry in the list (from 1) taken for its state index.
ToStateIdIdx_position(w, i2) == i2

\* toStateIdIdx=stateInfo2.stateIdx, with i2 the entry stateInfo2 is bound to
ToStateIdIdx(w, i2) == w.data[w.list_of_states[i2].stateInfo].stateIdx

\* BehaviorFile.connect_states.  A state that is not found is only logged;
\* with no state at all the event is registered before the unbound
\* stateTransitions is read.
connect_states_call(w, b, state1, state2, event) ==
    IF SameStateAsserted(state1, state2)
    THEN [w |-> w, result |-> "AssertionError"]
    ELSE LET i1 == LoopVar(w.list_of_states, state1)
             i2 == LoopVar(w.list_of_states, state2)
             w1 == getOrCreateEventID(w, b, event)
         IN IF i1 = None
            THEN [w |-> w1, result |-> "UnboundLocalError"]
            ELSE [w |-> add_transition(
                            w1, w.list_of_states[i1].stateTransitions,
                            EventID(w1, event), ToStateIdIdx(w, i2),
                            BlendEffectTag(w, b), FALSE),
                  result |-> IF /\ Found(w.list_of_states, state1)
                                /\ Found(w.list_of_states, state2)
                             THEN "ok" ELSE "warning"]

\* getOrCreatewildcardtransitions making a new table on every call.
getOrCreatewildcardtransitions_always(w, b) ==
    LET w1 == hkbStateMachineTransitionInfoArray_init(w, b)
    IN [w1 EXCEPT !.bf[b].wildcardtransitions = Newest(w1)]

\* BehaviorFile.getOrCreatewildcardtransitions
getOrCreatewildcardtransitions(w, b) ==
    IF w.bf[b].wildcardtransitions # None
    THEN w
    ELSE LET w1 == hkbStateMachineTransitionInfoArray_init(w, b)
         IN [w1 EXCEPT !.bf[b].wildcardtransitions = Newest(w1)]

\* add_wildcard going on after its warning: the event is registered before
\* the call returns.
add_wildcard_call_noreturn(w, b, stateStr, event) ==
    IF ~Found(w.list_of_states, stateStr)
    THEN [w |-> getOrCreateEventID(w, b, event), result |-> "warning"]
    ELSE LET i == LoopVar(w.list_of_states, stateStr)
             w1 == getOrCreateEventID(w, b, event)
             w2 == getOrCreatewildcardtransitions(w1, b)
         IN [w |-> add_transition(w2, w2.bf[b].wildcardtransitions,
                                  EventID(w1, event), ToStateIdIdx(w, i),
                                  BlendEffectTag(w, b), TRUE),
             result |-> "ok"]

\* BehaviorFile.add_wildcard
add_wildcard_call(w, b, stateStr, event) ==
    IF ~Found(w.list_of_states, stateStr)
    THEN [w |-> w, result |-> "warning"]
    ELSE LET i == LoopVar(w.list_of_states, stateStr)
             w1 == getOrCreateEventID(w, b, event)
             w2 == getOrCreatewildcardtransitions(w1, b)
         IN [w |-> add_transition(w2, w2.bf[b].wildcardtransitions,
                                  EventID(w1, event), ToStateIdIdx(w, i),
                                  BlendEffectTag(w, b), TRUE),
             result |-> "ok"]

\* The loop of __finalize over list_of_states[k:], on the state machine sm.
RECURSIVE AddStates(_, _, _)
AddStates(w, sm, k) ==
    IF k > Len(w.list_of_states) THEN w
    ELSE AddStates(StateMachine_add_state(w, sm,
                                          w.list_of_states[k].stateInfo).w,
                   sm, k + 1)

\* The root container named by the object counter instead of root_index.
RootLevelContainer_counter(w, b) ==
    [tag |-> LastTag(w, b), class |-> "hkRootLevelContainer",
     numelements |-> Str(1), name |-> "hkbBehaviorGraph",
     className |-> "hkbBehaviorGraph",
     variant |-> w.data[w.bf[b].hkbBehaviorGraphObj].tag]

\* The hkRootLevelContainer that __finalize appends, named by root_index.
RootLevelContainer(w, b) ==
    [tag |-> FormatTag(root_index), class |-> "hkRootLevelContainer",
     numelements |-> Str(1), name |-> "hkbBehaviorGraph",
     className |-> "hkbBehaviorGraph",
     variant |-> w.data[w.bf[b].hkbBehaviorGraphObj].tag]

\* BehaviorFile.__finalize
finalize(w, b) ==
    LET w1 == hkbStateMachine_init(w, b)
        w2 == [w1 EXCEPT !.bf[b].hkbStateMachineObj = Newest(w1)]
        w3 == AddStates(w2, Newest(w1), 1)
        w4 == hkbBehaviorGraph_init(w3, b)
        w5 == [w4 EXCEPT !.bf[b].hkbBehaviorGraphObj = Newest(w4)]
    IN [w5 EXCEPT !.data = Append(@, RootLevelContainer(w5, b))]

\* ------------------------------------------------------------- hkpackfile
\* The tree under hkpackfile as _pretty_print walks it: every element and
\* comment with its children.  The text of a childless element is its
\* content, which data holds; here it is empty.
LeavesTab == [n \in 0..40 |-> [i \in 1..n |-> Element("")]]

\* n childless elements.
Leaves(n) == LeavesTab[n]

\* An element built with the child elements given.
Parent(children) == [text |-> "", tail |-> "", children |-> children]

\* eventNames holds one hkcstring per name.
hkbBehaviorGraphStringData_element(obj) ==
    Parent(Leaves(2) \o <<Parent(Leaves(Len(obj.eventNames)))>> \o Leaves(3))

hkbVariableValueSet_element(obj) == Parent(Leaves(5))

\* eventInfos holds one hkobject per event, each with its flags.
hkbBehaviorGraphData_element(obj) ==
    Parent(Leaves(5)
           \o <<Parent([k \in 1..Len(obj.eventInfos) |-> Parent(Leaves(1))])>>
           \o Leaves(4))

hkbBlendingTransitionEffect_element(obj) == Parent(Leaves(23))

\* The hkobject add_transition appends: triggerInterval with its hkobject of
\* four values, then eight values.
transition_element == Parent(<<Parent(<<Parent(Leaves(4))>>)>> \o Leaves(8))

hkbStateMachineTransitionInfoArray_element(obj) ==
    Parent(Leaves(2)
           \o <<Parent([k \in 1..Len(obj.transitions) |-> transition_element])>>)

hkbClipGenerator_element(obj) == Parent(Leaves(37))

BGSGamebryoSequenceGenerator_element(obj) == Parent(Leaves(17))

hkbStateMachineStateInfo_element(obj) == Parent(Leaves(14))

\* events holds one hkobject per event, each with id and payload.
hkbStateMachineEventPropertyArray_element(obj) ==
    Parent(Leaves(2)
           \o <<Parent([k \in 1..Len(obj.events) |-> Parent(Leaves(2))])>>)

\* The hkobject add_trigger appends: localTime, event with its hkobject of id
\* and payload, then three values.
trigger_element ==
    Parent(Leaves(1) \o <<Parent(<<Parent(Leaves(2))>>)>> \o Leaves(3))

hkbClipTriggerArray_element(obj) ==
    Parent(Leaves(2)
           \o <<Parent([k \in 1..Len(obj.triggersParam) |-> trigger_element])>>)

\* The eleventh child is eventToSendWhenStateOrTransitionChanges with its
\* hkobject of id, payload and a comment; states is text, not elements.
hkbStateMachine_element(obj) ==
    Parent(Leaves(10) \o <<Parent(<<Parent(Leaves(3))>>)>> \o Leaves(27))

hkbBehaviorGraph_element(obj) == Parent(Leaves(40))

\* namedVariants with its hkobject of name, className and variant.
hkRootLevelContainer_element(obj) ==
    Parent(<<Parent(<<Parent(Leaves(3))>>)>>)

\* The <hkobject> element of an object of the data section.
hkobject_element(obj) ==
    CASE obj.class = "hkbBehaviorGraphStringData" ->
             hkbBehaviorGraphStringData_element(obj)
      [] obj.class = "hkbVariableValueSet" -> hkbVariableValueSet_element(obj)
      [] obj.class = "hkbBehaviorGraphData" ->
             hkbBehaviorGraphData_element(obj)
      [] obj.class = "hkbBlendingTransitionEffect" ->
             hkbBlendingTransitionEffect_element(obj)
      [] obj.class = "hkbStateMachineTransitionInfoArray" ->
             hkbStateMachineTransitionInfoArray_element(obj)
      [] obj.class = "hkbClipGenerator" -> hkbClipGenerator_element(obj)
      [] obj.class = "BGSGamebryoSequenceGenerator" ->
             BGSGamebryoSequenceGenerator_element(obj)
      [] obj.class = "hkbStateMachineStateInfo" ->
             hkbStateMachineStateInfo_element(obj)
      [] obj.class = "hkbStateMachineEventPropertyArray" ->
             hkbStateMachineEventPropertyArray_element(obj)
      [] obj.class = "hkbClipTriggerArray" -> hkbClipTriggerArray_element(obj)
      [] obj.class = "hkbStateMachine" -> hkbStateMachine_element(obj)
      [] obj.class = "hkbBehaviorGraph" -> hkbBehaviorGraph_element(obj)
      [] obj.class = "hkRootLevelContainer" ->
             hkRootLevelContainer_element(obj)

\* BehaviorFile.hkpackfile as built: the hksection data under it, and the
\* <hkobject>s under data.  One tree is kept by the class for all instances.
hkpackfile_built(w) ==
    Parent(<<Parent([i \in 1..Len(w.data) |-> hkobject_element(w.data[i])])>>)

\* The tree built, with the whitespace an earlier _pretty_print left in its
\* elements: the elements are changed in place and new ones are only appended.
RECURSIVE InPlace(_, _)
InPlace(old, built) ==
    [text |-> IF old.children # <<>> THEN old.text ELSE built.text,
     tail |-> old.tail,
     children |-> [i \in 1..Len(built.children) |->
                      IF i <= Len(old.children)
                      THEN InPlace(old.children[i], built.children[i])
                      ELSE built.children[i]]]

\* BehaviorFile.hkpackfile in world w, when tree is what the last
\* prettify_and_print left.
hkpackfile(w, tree) == InPlace(tree, hkpackfile_built(w))

\* The paths export is given: one that can be written, the empty path
\* (QFileDialog.getSaveFileName on cancel) and one in a missing directory.
FilePaths == {"behavior.xml", "", "missing/behavior.xml"}

\* The paths of FilePaths that open(filepath, 'wb') cannot open.
Unopenable == {"", "missing/behavior.xml"}

\* open(filepath, 'wb') succeeds.
Opens(filepath) == filepath \notin Unopenable

\* How prettify_and_print ends once the tree is printed: open raises for a
\* path it cannot open, else the file is written.
write_file(filepath) == IF Opens(filepath) THEN "ok" ELSE "FileNotFoundError"

\* BehaviorFile.export up to the open of prettify_and_print: __finalize,
\* then _pretty_print on hkpackfile.  tree is hkpackfile as the last
\* prettify_and_print left it.
finalize_and_print(w, b, tree) ==
    LET w1 == finalize(w, b)
    IN [w |-> w1, xml_obj |-> pretty_print(hkpackfile(w1, tree), 0)]

\* BehaviorFile.export(filepath)
export_call(w, b, filepath, tree) ==
    LET r == finalize_and_print(w, b, tree)
    IN [w |-> r.w, xml_obj |-> r.xml_obj, result |-> write_file(filepath)]

\* hkbStateMachine.add_wildcardTransitions on the state machine object sm,
\* given the transition table object wildcardtransition.
add_wildcardTransitions_call(w, sm, wildcardtransition) ==
    IF w.data[wildcardtransition].class = "hkbStateMachineTransitionInfoArray"
    THEN [w |-> [w EXCEPT !.data[sm].wildcardTransitions =
                              w.data[wildcardtransition].tag],
          result |-> "ok"]
    ELSE [w |-> w, result |-> "AssertionError"]

\* ------------------------------------------------------------- actions
\* Before any BehaviorFile is constructed.
Empty ==
    [data |-> <<>>, list_of_states |-> <<>>, event_name_list |-> <<>>,
     sm_list_of_states |-> <<>>, bf |-> <<>>, issued |-> <<>>]

NoCalls ==
    [add_state |-> 0, connect_states |-> [n \in StateNames |-> 0],
     add_clip_trigger |-> [n \in StateNames |-> 0],
     add_wildcard |-> 0, export |-> 0, export_calls |-> 0]

CallRecord(op, b, name, name2, event, animation_path, gamebryoanim, result) ==
    [op |-> op, b |-> b, name |-> name, name2 |-> name2, event |-> event,
     animation_path |-> animation_path, gamebryoanim |-> gamebryoanim,
     result |-> result]

\* The program moves to world w.  Calls are made while fewer than MaxCalls of
\* them have been made (each action asks that first).
Moves(w) ==
    /\ ncalls < MaxCalls
    /\ ncalls' = ncalls + 1
    /\ data' = w.data
    /\ list_of_states' = w.list_of_states
    /\ event_name_list' = w.event_name_list
    /\ sm_list_of_states' = w.sm_list_of_states
    /\ bf' = w.bf
    /\ issued' = w.issued

\* A call that does not print: hkpackfile keeps the whitespace it has.
Commit(w) == Moves(w) /\ UNCHANGED <<xml_obj, printed>>

\* The program has constructed one BehaviorFile (as MainWindow.export_file
\* does before it adds anything).
Init ==
    LET w == BehaviorFile_init(Empty)
    IN /\ data = w.data
       /\ list_of_states = w.list_of_states
       /\ event_name_list = w.event_name_list
       /\ sm_list_of_states = w.sm_list_of_states
       /\ bf = w.bf
       /\ issued = w.issued
       /\ okcalls = <<NoCalls>>
       /\ ncalls = 0
       /\ last = CallRecord("__init__", 1, "", "", "", "", FALSE, "ok")
       /\ xml_obj = hkpackfile_built(w)
       /\ printed = FALSE

\* bf = BehaviorFile() once more in the same process.
new_BehaviorFile ==
    /\ Len(bf) < MaxBuilders
    /\ Commit(BehaviorFile_init(World))
    /\ okcalls' = Append(okcalls, NoCalls)
    /\ last' = CallRecord("__init__", Len(bf) + 1, "", "", "", "", FALSE, "ok")

add_state(b, name, args) ==
    /\ ncalls < MaxCalls
    /\ \E r \in {add_state_call(World, b, name, args.animation_path, args.looping,
                               args.gamebryoanim, args.enter, args.exit)} :
          /\ Commit(r.w)
          /\ okcalls' = IF r.result = "ok"
                        THEN [okcalls EXCEPT ![b].add_state = @ + 1]
                        ELSE okcalls
          /\ last' = CallRecord("add_state", b, name, "", "",
                                args.animation_path, args.gamebryoanim, r.result)

\* An add_clip_trigger call that found its state counts for that name.
add_clip_trigger(b, state, event, relativeToEndOfClip, localTime) ==
    /\ ncalls < MaxCalls
    /\ \E r \in {add_clip_trigger_call(World, b, state, event,
                                      relativeToEndOfClip, localTime)} :
          /\ Commit(r.w)
          /\ okcalls' = IF r.result = "ok"
                        THEN [okcalls EXCEPT ![b].add_clip_trigger[state] = @ + 1]
                        ELSE okcalls
          /\ last' = CallRecord("add_clip_trigger", b, state, "", event, "",
                                FALSE, r.result)

\* A connect_states call that found both states counts for its source name.
connect_states(b, state1, state2, event) ==
    /\ ncalls < MaxCalls
    /\ \E r \in {connect_states_call(World, b, state1, state2, event)} :
          /\ Commit(r.w)
          /\ okcalls' = IF r.result = "ok"
                        THEN [okcalls EXCEPT ![b].connect_states[state1] = @ + 1]
                        ELSE okcalls
          /\ last' = CallRecord("connect_states", b, state1, state2, event, "",
                                FALSE, r.result)

add_wildcard(b, stateStr, event) ==
    /\ ncalls < MaxCalls
    /\ \E r \in {add_wildcard_call(World, b, stateStr, event)} :
          /\ Commit(r.w)
          /\ okcalls' = IF r.result = "ok"
                        THEN [okcalls EXCEPT ![b].add_wildcard = @ + 1]
                        ELSE okcalls
          /\ last' = CallRecord("add_wildcard", b, stateStr, "", event, "",
                                FALSE, r.result)

\* bf.export(filepath), as export_call gives it.  An export that raises has
\* run __finalize and _pretty_print; only one that wrote its file counts as
\* completed.
export(b) ==
    /\ ncalls < MaxCalls
    /\ \E r \in {finalize_and_print(World, b, xml_obj)} :
          \E filepath \in FilePaths :
             /\ Moves(r.w)
             /\ xml_obj' = r.xml_obj
             /\ printed' = TRUE
             /\ okcalls' = IF write_file(filepath) = "ok"
                           THEN [okcalls EXCEPT ![b].export = @ + 1,
                                                ![b].export_calls = @ + 1]
                           ELSE [okcalls EXCEPT ![b].export_calls = @ + 1]
             /\ last' = CallRecord("export", b, "", "", "", "", FALSE,
                                   write_file(filepath))

\* bf.hkbStateMachineObj.add_wildcardTransitions(wildcardtransition), on the
\* state machine the last export of b made.
add_wildcardTransitions(b, wildcardtransition) ==
    /\ ncalls < MaxCalls
    /\ bf[b].hkbStateMachineObj # None
    /\ \E r \in {add_wildcardTransitions_call(World, bf[b].hkbStateMachineObj,
                                              wildcardtransition)} :
          /\ Commit(r.w)
          /\ UNCHANGED okcalls
          /\ last' = CallRecord("add_wildcardTransitions", b,
                                data[wildcardtransition].tag, "", "", "",
                                FALSE, r.result)

Builders == 1..Len(bf)

Next ==
    \/ \E b \in Builders, name \in StateNames, args \in AddStateArgs :
          add_state(b, name, args)
    \/ \E b \in Builders, state \in StateNames, args \in ClipTriggerArgs :
          add_clip_trigger(b, state, args.event, args.relativeToEndOfClip,
                           args.localTime)
    \/ \E b \in Builders, state1 \in StateNames, state2 \in StateNames,
          event \in EventNames :
          connect_states(b, state1, state2, event)
    \/ \E b \in Builders, stateStr \in StateNames, event \in WildcardEvents :
          add_wildcard(b, stateStr, event)
    \/ \E b \in Builders : export(b)
    \/ \E b \in Builders :
          \E wildcardtransition \in
                 {i \in 1..Len(data) :
                     data[i].class = "hkbStateMachineTransitionInfoArray"} :
             add_wildcardTransitions(b, wildcardtransition)

\* One BehaviorFile per process.
Spec == Init /\ [][Next]_vars

\* Several BehaviorFiles in one process, as each export of the editor makes.
MultiNext ==
    \/ ncalls < MaxMultiCalls /\ Next
    \/ ncalls < MaxMultiCalls /\ new_BehaviorFile

MultiSpec == Init /\ [][MultiNext]_vars

\* ------------------------------------------------------------- printing a tree
\* No BehaviorFile constructed: only a tree is built and printed.
PrettyInit ==
    /\ data = Empty.data
    /\ list_of_states = Empty.list_of_states
    /\ event_name_list = Empty.event_name_list
    /\ sm_list_of_states = Empty.sm_list_of_states
    /\ bf = Empty.bf
    /\ issued = Empty.issued
    /\ okcalls = <<>>
    /\ ncalls = 0
    /\ last = CallRecord("", 0, "", "", "", "", FALSE, "ok")
    /\ xml_obj \in {Element(text) : text \in Texts}
    /\ printed = FALSE

\* A child element is added somewhere in the tree.
ET_SubElement(path, text) ==
    /\ Cardinality(Paths(xml_obj)) < MaxNodes
    /\ xml_obj' = SubElement(xml_obj, path, text)
    /\ printed' = FALSE
    /\ UNCHANGED <<data, list_of_states, event_name_list, sm_list_of_states,
                   bf, issued, okcalls, ncalls, last>>

\* prettify_and_print: _pretty_print(xml_obj) rewrites the tree in place.
prettify_and_print ==
    /\ xml_obj' = pretty_print(xml_obj, 0)
    /\ printed' = TRUE
    /\ UNCHANGED <<data, list_of_states, event_name_list, sm_list_of_states,
                   bf, issued, okcalls, ncalls, last>>

PrettyNext ==
    \/ \E path \in Paths(xml_obj), text \in Texts : ET_SubElement(path, text)
    \/ prettify_and_print

PrettySpec == PrettyInit /\ [][PrettyNext]_vars

\* ------------------------------------------------------------- properties
\* The ways a call ends by raising.
Exceptions ==
    {"AssertionError", "TypeError", "UnboundLocalError", "FileNotFoundError"}

Objects == 1..Len(data)

OfClass(c) == {i \in Objects : data[i].class = c}

\* The Event Table and the Event Metadata Table of builder b, as emitted.
EventTable(b) == data[bf[b].hkbBehaviorGraphStringData].eventNames

EventMetadataTable(b) == data[bf[b].hkbBehaviorGraphData].eventInfos

\* Every transition record of every Transition Table, local or wildcard.
TransitionCount ==
    LET RECURSIVE Sum(_)
        Sum(S) == IF S = {} THEN 0
                  ELSE LET i == CHOOSE x \in S : TRUE
                       IN Len(data[i].transitions) + Sum(S \ {i})
    IN Sum(OfClass("hkbStateMachineTransitionInfoArray"))

\* C1: in a single builder, after any sequence of calls (those that warn,
\* return early or raise included), eventNames and eventInfos hold the same
\* number of entries.
C1_EventTablesSameLength ==
    \A b \in Builders : Len(EventTable(b)) = Len(EventMetadataTable(b))

\* An event registered by a call that then raised.
C1_Witness ==
    /\ last.op = "connect_states"
    /\ last.result = "UnboundLocalError"
    /\ Len(EventTable(1)) = 1
    /\ Len(EventMetadataTable(1)) = 1

\* The counter values a run can reach, and the tag each is formatted to.
TagSpace == root_index..(root_index + 16 * (MaxCalls + 1))

TagOf == [n \in TagSpace |-> FormatTag(n)]

\* The number a tag was formatted from.
TagNumber(t) == CHOOSE n \in TagSpace : TagOf[n] = t

TagsIncrease ==
    \A b \in Builders :
        /\ \A k \in 1..(Len(issued[b]) - 1) :
               TagNumber(issued[b][k]) < TagNumber(issued[b][k + 1])
        /\ \A k \in 1..Len(issued[b]) :
               TagNumber(issued[b][k]) > root_index

\* No two objects of the data section carry the same tag.
TagsDistinct == \A i, j \in Objects : i # j => data[i].tag # data[j].tag

TagsKept == \A i \in Objects : data'[i].tag = data[i].tag

\* C2: in one builder every tag _OCnext returns is greater than all it
\* returned before, no two objects the builder created carry the same tag,
\* and no object's tag changes after creation.
C2_TagsStrictlyIncrease ==
    /\ [](TagsIncrease /\ TagsDistinct)
    /\ [][TagsKept]_vars

\* Tag t names exactly one emitted object, and that one is of a class in cs.
Resolves(t, cs) ==
    /\ Cardinality({i \in Objects : data[i].tag = t}) = 1
    /\ \E i \in Objects : data[i].tag = t /\ data[i].class \in cs

\* A reference text: "null", or a tag that resolves.
RefOk(t, cs) == t = "null" \/ Resolves(t, cs)

Generators == {"hkbClipGenerator", "BGSGamebryoSequenceGenerator"}

ReferencesResolve ==
    /\ Resolves(toplevelobject, {"hkRootLevelContainer"})
    /\ \A i \in OfClass("hkRootLevelContainer") :
           Resolves(data[i].variant, {"hkbBehaviorGraph"})
    /\ \A i \in OfClass("hkbBehaviorGraph") :
           /\ Resolves(data[i].rootGenerator, {"hkbStateMachine"})
           /\ Resolves(data[i].data, {"hkbBehaviorGraphData"})
    /\ \A i \in OfClass("hkbBehaviorGraphData") :
           /\ Resolves(data[i].stringData, {"hkbBehaviorGraphStringData"})
           /\ Resolves(data[i].variableInitialValues, {"hkbVariableValueSet"})
    /\ \A i \in OfClass("hkbStateMachine") :
           /\ \A k \in 1..Len(data[i].states) :
                  Resolves(data[i].states[k], {"hkbStateMachineStateInfo"})
           /\ RefOk(data[i].wildcardTransitions,
                    {"hkbStateMachineTransitionInfoArray"})
    /\ \A i \in OfClass("hkbStateMachineStateInfo") :
           /\ Resolves(data[i].generator, Generators)
           /\ Resolves(data[i].transitions,
                       {"hkbStateMachineTransitionInfoArray"})
           /\ RefOk(data[i].enterNotifyEvents,
                    {"hkbStateMachineEventPropertyArray"})
           /\ RefOk(data[i].exitNotifyEvents,
                    {"hkbStateMachineEventPropertyArray"})
    /\ \A i \in OfClass("hkbClipGenerator") :
           RefOk(data[i].triggers, {"hkbClipTriggerArray"})
    /\ \A i \in OfClass("hkbStateMachineTransitionInfoArray") :
           \A k \in 1..Len(data[i].transitions) :
               RefOk(data[i].transitions[k].transition,
                     {"hkbBlendingTransitionEffect"})

\* C3: for the only builder of the process, exported once, every tag-valued
\* reference of the data section names exactly one emitted object and no two
\* emitted objects share a tag.
C3_ReferencesResolve ==
    (Len(bf) = 1 /\ okcalls[1].export_calls = 1)
        => (ReferencesResolve /\ TagsDistinct)

\* An exported graph of two states with a transition between them.
C3_Witness ==
    /\ Len(bf) = 1
    /\ okcalls[1].export_calls = 1
    /\ okcalls[1].export = 1
    /\ Len(list_of_states) = 2
    /\ TransitionCount >= 1
    /\ \E i \in OfClass("hkbStateMachine") : Len(data[i].states) = 2

\* C4: on a fresh builder, after N successful add_state, M successful
\* connect_states and K successful add_wildcard calls, the exported State
\* Machine lists exactly the N state tags with element count N, each state's
\* Transition Table counts the connect_states calls made with that state as
\* source, and the Wildcard Transition Table counts K.
C4_ExportedCountsMatchCalls ==
    (Len(bf) = 1 /\ last.op = "export" /\ okcalls[1].export_calls = 1) =>
        LET sm == bf[1].hkbStateMachineObj
            wt == bf[1].wildcardtransitions
            N == okcalls[1].add_state
            K == okcalls[1].add_wildcard
        IN /\ Len(list_of_states) = N
           /\ data[sm].numelements = Str(N)
           /\ Len(data[sm].states) = N
           /\ \A k \in 1..Len(list_of_states) :
                  /\ k <= Len(data[sm].states)
                  /\ data[sm].states[k] = data[list_of_states[k].stateInfo].tag
                  /\ data[list_of_states[k].stateTransitions].numelements =
                         Str(okcalls[1].connect_states[
                                 list_of_states[k].stateName])
                  /\ Len(data[list_of_states[k].stateTransitions].transitions) =
                         okcalls[1].connect_states[list_of_states[k].stateName]
           /\ IF wt = None THEN K = 0
              ELSE data[wt].numelements = Str(K)

\* The state indices of the states in the state list, as written in records.
StateIndexTexts ==
    {Str(data[list_of_states[k].stateInfo].stateIdx) :
         k \in 1..Len(list_of_states)}

\* The records a step appends to the Transition Table object i.
AppendedTransitions(i) ==
    LET old == IF i <= Len(data) THEN Len(data[i].transitions) ELSE 0
    IN {data'[i].transitions[k] : k \in (old + 1)..Len(data'[i].transitions)}

\* C5: whenever a record is appended to a local or wildcard Transition Table,
\* its destination index is the index of a state already in the state list.
C5_DestinationIsListedState ==
    [][\A i \in 1..Len(data') :
           data'[i].class = "hkbStateMachineTransitionInfoArray" =>
               \A t \in AppendedTransitions(i) :
                   t.toStateId \in StateIndexTexts]_vars

\* connect_states has appended a record for a destination name that is not a
\* state, and a wildcard record exists as well.
C5_Witness ==
    /\ last.op = "connect_states"
    /\ last.result = "warning"
    /\ ~Found(list_of_states, last.name2)
    /\ \E i \in OfClass("hkbStateMachineTransitionInfoArray") :
           \E k \in 1..Len(data[i].transitions) :
               data[i].transitions[k].flags = TransitionFlags(FALSE)
    /\ \E i \in OfClass("hkbStateMachineTransitionInfoArray") :
           \E k \in 1..Len(data[i].transitions) :
               data[i].transitions[k].flags = TransitionFlags(TRUE)

\* The program's state is left as it was.
ProgramUnchanged ==
    UNCHANGED <<data, list_of_states, event_name_list, sm_list_of_states,
                bf, issued>>

\* C6: add_state with a name already in the state list returns without
\* raising and leaves the state count, the next state index, the tag counter,
\* the Event Table and the emitted objects unchanged.
C6_DuplicateStateIsNoop ==
    [][(last'.op = "add_state" /\ Found(list_of_states, last'.name)) =>
           /\ last'.result \notin Exceptions
           /\ Len(list_of_states') = Len(list_of_states)
           /\ bf'[last'.b].nStates = bf[last'.b].nStates
           /\ bf'[last'.b].object_counter = bf[last'.b].object_counter
           /\ event_name_list' = event_name_list
           /\ data' = data
           /\ ProgramUnchanged]_vars

\* A duplicate name given with arguments that pass the path check.
C6_Witness ==
    /\ last.op = "add_state"
    /\ last.result = "warning"
    /\ ~PlaceholderRejected(last.animation_path, last.gamebryoanim)
    /\ Found(list_of_states, last.name)

\* C7: connect_states(A, A, event) is rejected for every name A and every
\* graph, a state or not, and registers no event, appends no transition and
\* issues no tag.
C7_SelfTransitionRejected ==
    [][(last'.op = "connect_states" /\ last'.name = last'.name2) =>
           /\ last'.result = "AssertionError"
           /\ ProgramUnchanged]_vars

\* A rejected connect_states(A, A, e) with A a state of the graph.
C7_Witness ==
    /\ last.op = "connect_states"
    /\ last.name = last.name2
    /\ last.result = "AssertionError"
    /\ Found(list_of_states, last.name)

\* The state list holds a state of that name with a Gamebryo generator.
IsLegacyState(name) ==
    \E k \in 1..Len(list_of_states) :
        /\ list_of_states[k].stateName = name
        /\ data[list_of_states[k].stateGenerator].class =
               "BGSGamebryoSequenceGenerator"

\* C8: add_clip_trigger naming a state added with the Gamebryo generator
\* fails with a TypeError and creates no Clip Trigger Table, registers no
\* event and issues no tag.
C8_LegacyStateRejectsTrigger ==
    [][(last'.op = "add_clip_trigger" /\ IsLegacyState(last'.name)) =>
           /\ last'.result = "TypeError"
           /\ ProgramUnchanged]_vars

\* A rejected add_clip_trigger on a Gamebryo state.
C8_Witness ==
    /\ last.op = "add_clip_trigger"
    /\ last.result = "TypeError"
    /\ IsLegacyState(last.name)

\* C9: connect_states whose source or destination is not a state only warns:
\* it appends no transition record and registers no event.
C9_MissingStateOnlyWarns ==
    [][(/\ last'.op = "connect_states"
        /\ last'.name # last'.name2
        /\ \/ ~Found(list_of_states, last'.name)
           \/ ~Found(list_of_states, last'.name2)) =>
           /\ last'.result = "warning"
           /\ ProgramUnchanged]_vars

\* C10: add_clip_trigger naming a state that is not in the graph fails with
\* an error, and adds no trigger, creates no Clip Trigger Table and registers
\* no event.
C10_MissingStateTriggerFails ==
    [][(last'.op = "add_clip_trigger"
        /\ ~Found(list_of_states, last'.name)) =>
           /\ last'.result \in Exceptions
           /\ ProgramUnchanged]_vars

\* C11: add_wildcard naming a state that is not in the graph warns and
\* returns: no event is registered, no Wildcard Transition Table is created
\* and no transition record is appended.
C11_MissingStateWildcardReturns ==
    [][(last'.op = "add_wildcard" /\ ~Found(list_of_states, last'.name)) =>
           /\ last'.result = "warning"
           /\ event_name_list' = event_name_list
           /\ bf'[last'.b].wildcardtransitions = bf[last'.b].wildcardtransitions
           /\ TransitionCount' = TransitionCount
           /\ ProgramUnchanged]_vars

\* add_wildcard has warned about a missing name in a graph that has a state
\* and has neither the event nor a Wildcard Transition Table.
C11_Witness ==
    /\ last.op = "add_wildcard"
    /\ last.result = "warning"
    /\ list_of_states # <<>>
    /\ ~Found(list_of_states, last.name)
    /\ ~Registered(event_name_list, last.event)
    /\ bf[1].wildcardtransitions = None

\* The Transition Tables that are not the local table of a state.
WildcardTables ==
    OfClass("hkbStateMachineTransitionInfoArray")
        \ {list_of_states[k].stateTransitions : k \in 1..Len(list_of_states)}

\* C12: a builder has no Wildcard Transition Table until its first
\* successful add_wildcard, which creates exactly one; every later
\* add_wildcard appends to that table, so there is never more than one.
C12_AtMostOneWildcardTable ==
    Len(bf) = 1 =>
        /\ Cardinality(WildcardTables) <= 1
        /\ IF okcalls[1].add_wildcard = 0
           THEN WildcardTables = {} /\ bf[1].wildcardtransitions = None
           ELSE /\ WildcardTables = {bf[1].wildcardtransitions}
                /\ Len(data[bf[1].wildcardtransitions].transitions) =
                       okcalls[1].add_wildcard

\* Two successful add_wildcard calls and one table holding both records.
C12_Witness ==
    /\ Len(bf) = 1
    /\ okcalls[1].add_wildcard >= 2
    /\ Cardinality(WildcardTables) = 1
    /\ Len(list_of_states) >= 1

\* getOrCreateEventID(e) called in the current state: a name that is not
\* registered is appended to both tables and gets the number of names
\* registered before; a registered name gets the index it stands at and
\* nothing changes.
GetOrCreateAsSpecified(e) ==
    LET w1 == getOrCreateEventID(World, 1, e)
        id == EventID(w1, e)
        sd == bf[1].hkbBehaviorGraphStringData
        gd == bf[1].hkbBehaviorGraphData
    IN IF ~Registered(event_name_list, e)
       THEN /\ id = Len(event_name_list)
            /\ w1.event_name_list = Append(event_name_list, e)
            /\ w1.data[sd].eventNames = Append(data[sd].eventNames, e)
            /\ Len(w1.data[gd].eventInfos) = Len(data[gd].eventInfos) + 1
       ELSE /\ w1 = World
            /\ event_name_list[id + 1] = e
            /\ \A j \in 1..id : event_name_list[j] # e

\* A registered name keeps its id over every step.
EventIdsKept ==
    \A k \in 1..Len(event_name_list) :
        get_eventID(event_name_list', event_name_list[k]).id =
            get_eventID(event_name_list, event_name_list[k]).id

\* C13: on a fresh builder getOrCreateEventID gives an unregistered name the
\* number of events registered before (0, 1, 2, ... in order of first use)
\* and appends it to both tables; for a registered name it returns the id
\* first assigned and changes nothing, so an event's id never changes.
C13_EventIdsInFirstUseOrder ==
    /\ [](Len(bf) = 1 => \A e \in EventNames : GetOrCreateAsSpecified(e))
    /\ [][EventIdsKept]_vars

\* Two events registered in first-use order by one add_state, the first of
\* them looked up again: an enter array holding id 0 and an exit array
\* holding ids 0 and 1.
C13_Witness ==
    /\ Len(bf) = 1
    /\ Len(event_name_list) = 2
    /\ \E i, j \in OfClass("hkbStateMachineEventPropertyArray") :
           /\ Len(data[i].events) = 1
           /\ data[i].events[1].id = Str(0)
           /\ Len(data[j].events) = 2
           /\ data[j].events[1].id = Str(0)
           /\ data[j].events[2].id = Str(1)

\* C14: on a fresh builder the k-th successful add_state creates the state
\* of index k-1: indices are 0-based, contiguous and in insertion order,
\* distinct states have distinct indices, and a rejected add_state (duplicate
\* name or placeholder path) consumes no index.
C14_StateIndicesSequential ==
    Len(bf) = 1 =>
        /\ Len(list_of_states) = okcalls[1].add_state
        /\ bf[1].nStates = okcalls[1].add_state
        /\ \A k \in 1..Len(list_of_states) :
               /\ data[list_of_states[k].stateInfo].stateIdx = k - 1
               /\ data[list_of_states[k].stateInfo].stateId = Str(k - 1)
        /\ \A j, k \in 1..Len(list_of_states) :
               j # k => data[list_of_states[j].stateInfo].stateIdx #
                            data[list_of_states[k].stateInfo].stateIdx

\* Two states added, of indices 0 and 1, and then an add_state that was
\* rejected.
C14_Witness ==
    /\ Len(bf) = 1
    /\ okcalls[1].add_state = 2
    /\ last.op = "add_state"
    /\ last.result = "warning"
    /\ data[list_of_states[2].stateInfo].stateIdx = 1
    /\ bf[1].nStates = 2

\* The entry of the state list that holds the state of that name.
StateEntry(name) == list_of_states[LoopVar(list_of_states, name)]

\* C15: connect_states(S, D, e) with S and D distinct states of the graph
\* appends exactly one record, carrying the id of e and the index of D, to
\* the end of S's Transition Table, and leaves every other Transition Table,
\* the Wildcard Transition Table among them, and the state list unchanged.
C15_ConnectAppendsOneRecord ==
    [][(/\ last'.op = "connect_states"
        /\ last'.name # last'.name2
        /\ Found(list_of_states, last'.name)
        /\ Found(list_of_states, last'.name2)) =>
           LET ts == StateEntry(last'.name).stateTransitions
               new == data'[ts].transitions
               n == Len(data[ts].transitions)
           IN /\ last'.result = "ok"
              /\ Len(new) = n + 1
              /\ SubSeq(new, 1, n) = data[ts].transitions
              /\ new[n + 1].eventId =
                     Str(get_eventID(event_name_list', last'.event).id)
              /\ new[n + 1].toStateId =
                     Str(data[StateEntry(last'.name2).stateInfo].stateIdx)
              /\ new[n + 1].flags = TransitionFlags(FALSE)
              /\ data'[ts].numelements = Str(n + 1)
              /\ \A i \in OfClass("hkbStateMachineTransitionInfoArray") \ {ts} :
                     data'[i] = data[i]
              /\ list_of_states' = list_of_states]_vars

\* A second record appended to the end of the source state's table.
C15_Witness ==
    /\ last.op = "connect_states"
    /\ last.result = "ok"
    /\ Len(data[StateEntry(last.name).stateTransitions].transitions) = 2
    /\ data[StateEntry(last.name).stateTransitions].transitions[2].toStateId =
           Str(data[StateEntry(last.name2).stateInfo].stateIdx)

\* C16: add_state for a non-legacy state whose animation path is the
\* placeholder warns and returns without adding a state, issuing a tag,
\* registering an event or emitting an object; a legacy state is accepted
\* with the placeholder path.
C16_PlaceholderPathRejected ==
    [][last'.op = "add_state" /\ last'.animation_path = "placeholder" =>
           IF ~last'.gamebryoanim
           THEN /\ last'.result = "warning"
                /\ list_of_states' = list_of_states
                /\ issued' = issued
                /\ event_name_list' = event_name_list
                /\ data' = data
                /\ ProgramUnchanged
           ELSE ~Found(list_of_states, last'.name) =>
                    /\ last'.result = "ok"
                    /\ Len(list_of_states') = Len(list_of_states) + 1
                    /\ list_of_states'[Len(list_of_states')].stateName =
                           last'.name
                    /\ data'[list_of_states'[Len(list_of_states')]
                                 .stateGenerator].class =
                           "BGSGamebryoSequenceGenerator"]_vars

\* A placeholder add_state rejected for a new name in a graph that holds a
\* legacy state added with the placeholder path.
C16_Witness ==
    /\ last.op = "add_state"
    /\ last.animation_path = "placeholder"
    /\ ~last.gamebryoanim
    /\ last.result = "warning"
    /\ ~Found(list_of_states, last.name)
    /\ \E k \in 1..Len(list_of_states) :
           IsGamebryo(World, list_of_states[k].stateGenerator)

\* C17: in every reachable state no state whose generator is a
\* BGSGamebryoSequenceGenerator owns a Clip Trigger Table, whatever
\* add_clip_trigger calls were made, with names of states or not.
C17_LegacyStateHasNoTriggerTable ==
    \A k \in 1..Len(list_of_states) :
        data[list_of_states[k].stateGenerator].class =
            "BGSGamebryoSequenceGenerator" =>
                data[list_of_states[k].stateInfo].hkbClipTriggerArray = None

\* add_clip_trigger named a state that is not in the graph while the last
\* state of the list was a legacy one, and failed.
C17_Witness ==
    /\ last.op = "add_clip_trigger"
    /\ last.result = "TypeError"
    /\ ~Found(list_of_states, last.name)
    /\ list_of_states # <<>>
    /\ data[list_of_states[Len(list_of_states)].stateGenerator].class =
           "BGSGamebryoSequenceGenerator"

\* C18: a second export of the same builder with no mutation in between
\* issues no tag and emits no further State Machine, Behavior Graph or root
\* container, and the State Machine's state references and element count are
\* those of the first export.
C18_SecondExportChangesNothing ==
    [][(last.op = "export" /\ last'.op = "export" /\ last'.b = last.b) =>
           LET b == last.b
           IN /\ issued'[b] = issued[b]
              /\ Len(data') = Len(data)
              /\ data'[bf'[b].hkbStateMachineObj].states =
                     data[bf[b].hkbStateMachineObj].states
              /\ data'[bf'[b].hkbStateMachineObj].numelements =
                     data[bf[b].hkbStateMachineObj].numelements]_vars

\* The calls that build the graph.
Mutators == {"add_state", "add_clip_trigger", "connect_states", "add_wildcard"}

\* C19: once export has completed on a builder, later add_state,
\* add_clip_trigger, connect_states and add_wildcard calls change neither
\* the state list, the transition tables, the event tables nor the emitted
\* objects.
C19_ImmutableAfterExport ==
    [][(last'.op \in Mutators /\ okcalls[last'.b].export >= 1) =>
           /\ list_of_states' = list_of_states
           /\ event_name_list' = event_name_list
           /\ data' = data]_vars

\* What builder c reads as its state list, its registered event names, its
\* State Machine's state references and its data section: attributes of the
\* classes, which an instance reads unless it has rebound them.
StateListOf(c) == list_of_states

EventNamesOf(c) == event_name_list

StateMachineStatesOf(c) == sm_list_of_states

DataSectionOf(c) == data

\* C20: an operation on one builder leaves the state list, the registered
\* event names, the State Machine state references and the data section of
\* every other builder unchanged.
C20_BuildersIndependent ==
    [][last'.op \in Mutators \cup {"export"} =>
           \A c \in Builders \ {last'.b} :
               /\ StateListOf(c)' = StateListOf(c)
               /\ EventNamesOf(c)' = EventNamesOf(c)
               /\ StateMachineStatesOf(c)' = StateMachineStatesOf(c)
               /\ DataSectionOf(c)' = DataSectionOf(c)]_vars

\* C21: each builder owns its tag counter: every new builder starts from the
\* same base (its first tag is base+1, the base being kept for the root
\* container), and its counter advances only by the tags it issues itself.
C21_OwnTagCounter ==
    \A b \in Builders :
        /\ Len(issued[b]) >= 1
        /\ issued[b][1] = FormatTag(root_index + 1)
        /\ bf[b].object_counter = root_index + Len(issued[b])
        /\ \A k \in 1..Len(issued[b]) : issued[b][k] # FormatTag(root_index)

\* Two builders, each having issued tags for a state after its construction.
C21_Witness ==
    /\ Len(bf) = 2
    /\ Len(issued[1]) > 4
    /\ Len(issued[2]) > 4
    /\ bf[1].object_counter # bf[2].object_counter

\* The names get_eventID is asked for: the events of the calls and one that
\* no call registers.
LookupNames == EventNames \cup {"Jump"}

\* C22: get_eventID returns the id of a registered name and fails for every
\* name that is not registered, also when no event is registered; it reads
\* the tables and changes nothing.
C22_StrictLookup ==
    \A e \in LookupNames :
        LET r == get_eventID(event_name_list, e)
        IN IF \E k \in 1..Len(event_name_list) : event_name_list[k] = e
           THEN /\ ~r.raised
                /\ r.id \in 0..(Len(event_name_list) - 1)
                /\ event_name_list[r.id + 1] = e
           ELSE r.raised

\* One event registered and looked up again by a second call, another event
\* not registered.
C22_Witness ==
    /\ Len(event_name_list) = 1
    /\ TransitionCount >= 2
    /\ get_eventID(event_name_list, "Jump").raised
    /\ ~get_eventID(event_name_list, event_name_list[1]).raised

\* C23: in every reachable state every element count equals the number of
\* records its array holds: of each Transition Table, each Clip Trigger
\* Table, each enter/exit event list, and of eventNames and eventInfos.
C23_ElementCountsMatch ==
    /\ \A i \in OfClass("hkbStateMachineTransitionInfoArray") :
           data[i].numelements = Str(Len(data[i].transitions))
    /\ \A i \in OfClass("hkbClipTriggerArray") :
           data[i].numelements = Str(Len(data[i].triggersParam))
    /\ \A i \in OfClass("hkbStateMachineEventPropertyArray") :
           data[i].numelements = Str(Len(data[i].events))
    /\ \A i \in OfClass("hkbBehaviorGraphStringData") :
           data[i].numelements = Str(Len(data[i].eventNames))
    /\ \A i \in OfClass("hkbBehaviorGraphData") :
           data[i].numelements = Str(Len(data[i].eventInfos))

\* A Clip Trigger Table of two triggers, a Transition Table with a record
\* and an event list of two entries.
C23_Witness ==
    /\ \E i \in OfClass("hkbClipTriggerArray") :
           Len(data[i].triggersParam) = 2
    /\ \E i \in OfClass("hkbStateMachineTransitionInfoArray") :
           Len(data[i].transitions) >= 1
    /\ \E i \in OfClass("hkbStateMachineEventPropertyArray") :
           Len(data[i].events) = 2
    /\ Len(event_name_list) = 2

\* The Clip Trigger Table of the state in entry k of the state list, or None.
TriggerTableOf(k) == data[list_of_states[k].stateInfo].hkbClipTriggerArray

\* The entries of the state list whose generator is a hkbClipGenerator.
ClipStates ==
    {k \in 1..Len(list_of_states) :
         data[list_of_states[k].stateGenerator].class = "hkbClipGenerator"}

\* C24: for each Clip state the first successful add_clip_trigger creates
\* exactly one Clip Trigger Table, every later one appends to that table,
\* and the state's generator references the table's tag after every
\* successful call and null before the first.
C24_OneTriggerTablePerState ==
    Len(bf) = 1 =>
        /\ \A k \in ClipStates :
               LET n == okcalls[1].add_clip_trigger[list_of_states[k].stateName]
                   g == list_of_states[k].stateGenerator
               IN IF n = 0
                  THEN /\ TriggerTableOf(k) = None
                       /\ data[g].triggers = "null"
                  ELSE /\ TriggerTableOf(k) \in OfClass("hkbClipTriggerArray")
                       /\ Len(data[TriggerTableOf(k)].triggersParam) = n
                       /\ data[g].triggers = data[TriggerTableOf(k)].tag
        /\ Cardinality(OfClass("hkbClipTriggerArray")) =
               Cardinality({k \in ClipStates : TriggerTableOf(k) # None})

\* One Blend Effect object for each builder, made by its construction.
OneBlendEffectEach ==
    /\ Cardinality(OfClass("hkbBlendingTransitionEffect")) = Len(bf)
    /\ \A b \in Builders :
           bf[b].blend_effect \in OfClass("hkbBlendingTransitionEffect")
    /\ \A b, c \in Builders : b # c => bf[b].blend_effect # bf[c].blend_effect

\* The records a step appends reference the Blend Effect of the builder the
\* call was made on.
AppendedReferenceBlendEffect ==
    \A i \in 1..Len(data') :
        data'[i].class = "hkbStateMachineTransitionInfoArray" =>
            \A t \in AppendedTransitions(i) :
                t.transition = data[bf[last'.b].blend_effect].tag

\* C25: each builder creates exactly one Blend Effect, at construction, and
\* every transition record appended by connect_states or add_wildcard
\* references that Blend Effect's tag.
C25_OneBlendEffect ==
    /\ []OneBlendEffectEach
    /\ [][AppendedReferenceBlendEffect]_vars

\* The second builder of the process has appended a wildcard record.
C25_Witness ==
    /\ Len(bf) = 2
    /\ last.op = "add_wildcard"
    /\ last.b = 2
    /\ last.result = "ok"
    /\ Len(data[bf[2].wildcardtransitions].transitions) = 1

\* The record carries the wildcard flag.
HasWildcardFlag(t) == t.flags = "FLAG_IS_LOCAL_WILDCARD|FLAG_DISABLE_CONDITION"

\* C26: every record of the Wildcard Transition Table carries the wildcard
\* flag and no record of a state's own Transition Table does: add_wildcard
\* never appends to a state's table, connect_states never to the wildcard
\* table.
C26_WildcardFlagByTable ==
    /\ \A i \in WildcardTables :
           \A k \in 1..Len(data[i].transitions) :
               HasWildcardFlag(data[i].transitions[k])
    /\ \A s \in 1..Len(list_of_states) :
           LET ts == list_of_states[s].stateTransitions
           IN \A k \in 1..Len(data[ts].transitions) :
                  /\ ~HasWildcardFlag(data[ts].transitions[k])
                  /\ data[ts].transitions[k].flags = "FLAG_DISABLE_CONDITION"
    /\ Len(bf) = 1 =>
           \A i \in WildcardTables :
               Len(data[i].transitions) = okcalls[1].add_wildcard

\* A graph with a wildcard record and a record in a state's own table.
C26_Witness ==
    /\ \E i \in WildcardTables : Len(data[i].transitions) >= 1
    /\ \E s \in 1..Len(list_of_states) :
           Len(data[list_of_states[s].stateTransitions].transitions) >= 1

\* The ids of the registered events of builder b, as written in records.
RegisteredIdTexts(b) == {Str(n) : n \in 0..(Len(EventTable(b)) - 1)}

\* C27: in a single builder every event id stored in a transition record, a
\* clip trigger or an enter/exit event list is the id of a registered event:
\* at least 0 and less than the number of entries of the Event Table.
C27_StoredEventIdsRegistered ==
    Len(bf) = 1 =>
        /\ \A i \in OfClass("hkbStateMachineTransitionInfoArray") :
               \A k \in 1..Len(data[i].transitions) :
                   data[i].transitions[k].eventId \in RegisteredIdTexts(1)
        /\ \A i \in OfClass("hkbClipTriggerArray") :
               \A k \in 1..Len(data[i].triggersParam) :
                   data[i].triggersParam[k].id \in RegisteredIdTexts(1)
        /\ \A i \in OfClass("hkbStateMachineEventPropertyArray") :
               \A k \in 1..Len(data[i].events) :
                   data[i].events[k].id \in RegisteredIdTexts(1)

\* Ids stored in a transition record, a clip trigger and an exit event list,
\* the id of the second registered event among them.
C27_Witness ==
    /\ Len(bf) = 1
    /\ Len(EventTable(1)) = 2
    /\ \E i \in OfClass("hkbStateMachineTransitionInfoArray") :
           Len(data[i].transitions) >= 1
    /\ \E i \in OfClass("hkbClipTriggerArray") :
           \E k \in 1..Len(data[i].triggersParam) :
               data[i].triggersParam[k].id = Str(1)
    /\ \E i \in OfClass("hkbStateMachineEventPropertyArray") :
           Len(data[i].events) = 2

\* The element t, at depth d, has its children indented: each child is
\* preceded by a newline and d+1 tabs, the last is followed by a newline and
\* d tabs, and so on below.
RECURSIVE WellIndented(_, _)
WellIndented(t, d) ==
    LET n == Len(t.children)
    IN n > 0 =>
           /\ t.text = Indent(d + 1)
           /\ \A i \in 1..(n - 1) : t.children[i].tail = Indent(d + 1)
           /\ t.children[n].tail = Indent(d)
           /\ \A i \in 1..n : WellIndented(t.children[i], d + 1)

\* The greatest depth of an element of t.
Height(t) ==
    Len(CHOOSE y \in Paths(t) : \A z \in Paths(t) : Len(z) <= Len(y))

\* C28: after _pretty_print on any element tree, the root at depth 0, every
\* element at depth d >= 1 is preceded by a newline and exactly d tabs, and
\* the last child at depth d is followed by a newline and d-1 tabs.
C28_PrettyPrintIndents == printed => WellIndented(xml_obj, 0)

\* A printed tree three levels deep in which some element has two children.
C28_Witness ==
    /\ printed
    /\ Height(xml_obj) >= 3
    /\ \E p \in Paths(xml_obj) : Len(p) >= 1 /\ p[Len(p)] = 2
    /\ xml_obj.text = Indent(1)

\* C29: after any sequence of builder operations no state's own Transition
\* Table holds a record whose destination index is that state's own index,
\* also after connect_states calls that name a state that does not exist.
C29_NoSelfTransitionStored ==
    \A s \in 1..Len(list_of_states) :
        LET ts == list_of_states[s].stateTransitions
        IN \A k \in 1..Len(data[ts].transitions) :
               data[ts].transitions[k].toStateId #
                   data[list_of_states[s].stateInfo].stateId

\* The state machine object sm lists a state whose index is its start state.
StartStateListed(sm) ==
    \E k \in 1..Len(data[sm].states) :
        \E i \in OfClass("hkbStateMachineStateInfo") :
            /\ data[i].tag = data[sm].states[k]
            /\ data[i].stateId = data[sm].startStateId

\* C30: whenever export is called, the start-state index written into the
\* State Machine (always 0) is the index of a state in the State Machine's
\* state list.
C30_StartStateExists ==
    last.op = "export" =>
        /\ data[bf[last.b].hkbStateMachineObj].startStateId = Str(0)
        /\ StartStateListed(bf[last.b].hkbStateMachineObj)

====
